---------------------------- MODULE Spec2Model ----------------------------
(***************************************************************************)
(* Online Bayesian change point detection of pysatl_cpd:                   *)
(*   BayesianOnlineCpd        (core/algorithms/bayesian_online_algorithm)  *)
(*   ExponentialConjugate     (bayesian/likelihoods/exponential_conjugate) *)
(*   ThresholdDetector, ArgmaxLocalizer, ConstantHazard                    *)
(*   BayesianLinearHeuristic  (core/algorithms/bayesian_linear_heuristic)  *)
(*   OnlineCpdCore            (core/online_cpd_core)                       *)
(*                                                                         *)
(* Numbers.  np.float64 values are modelled by exact rationals [n, d] with *)
(* d > 0 in lowest terms, and IEEE NaN by [n |-> 0, d |-> 0].  Every       *)
(* quantity the filter computes from integer observations is rational      *)
(* (the Lomax density with integer shape is a rational function), so the   *)
(* recursion is computed exactly as the code computes it, up to rounding.  *)
(*                                                                         *)
(* Values.  An observation is a tuple of numbers: a scalar np.float64 is   *)
(* <<x>>, an array of two numbers is <<x, y>>.                             *)
(***************************************************************************)
EXTENDS Integers, Sequences, FiniteSets, TLC

-----------------------------------------------------------------------------
(* Bounds of the model *)

\* calls fed to one filter (or wrapper, or pulled by one driver) since construction
MaxTime == 6

\* largest learning_sample_size a filter is constructed with
MaxLearn == 3

\* iterations of the retraining loop that are followed before the call is
\* recorded as not returning
MaxLoopIter == 3

\* clear() calls per filter
MaxClears == 1
MaxTiming == 3
MaxProvider == 4

\* calls made on the wrapper in the long stream
MaxStream == 12

\* calls made on a likelihood object used on its own
MaxModelCalls == 4

\* observations in a learning sample passed to a likelihood object used on its own
MaxSample == 2

\* calls made on a HeuristicGaussianVsExponential object used on its own
MaxSelectionCalls == 3

\* learning_sample_size of the filter under a wrapper on a short stream
MaxShortLearn == 2

\* calls made on a wrapper on a short stream
MaxShort == 8

\* observations given to the filter whose returned change points are collected
MaxSegment == 7

\* entries of an array passed to a detector or localizer used on its own
MaxProbs == 3

\* calls made on a detector or localizer used on its own
MaxPartCalls == 3

-----------------------------------------------------------------------------
(* Python values *)

None == <<>>

Some(x) == <<x>>

Scalar(x) == <<x>>

IsScalar(value) == Len(value) = 1

Val(value) == value[1]

\* the scalar observations fed to the filters
Obs == {Scalar(-1), Scalar(0), Scalar(1)}

\* a vector-valued observation, np.array([1.0, 1.0])
VecObs == <<1, 1>>

\* s[-k:] of a Python list, k >= 0: s[-0:] is s[0:], the whole list
SliceLast(s, k) ==
  IF k = 0 \/ k >= Len(s) THEN s ELSE SubSeq(s, Len(s) - k + 1, Len(s))

\* s[:k] of a Python list, k >= 0
SliceFirst(s, k) == IF k >= Len(s) THEN s ELSE SubSeq(s, 1, k)

\* s[k:] of a Python list, k >= 0
SliceFrom(s, k) == IF k >= Len(s) THEN <<>> ELSE SubSeq(s, k + 1, Len(s))

-----------------------------------------------------------------------------
(* np.float64 arithmetic on exact rationals, with NaN *)

RECURSIVE Gcd(_, _)
Gcd(a, b) == IF b = 0 THEN a ELSE Gcd(b, a % b)

Abs(a) == IF a < 0 THEN -a ELSE a

NaN == [n |-> 0, d |-> 0]

IsNaN(r) == r.d = 0

\* the rational n/d, d > 0, in lowest terms
Rat(n, d) ==
  LET g == Gcd(Abs(n), d) IN [n |-> n \div g, d |-> d \div g]

Zero == [n |-> 0, d |-> 1]

One == [n |-> 1, d |-> 1]

RMul(a, b) ==
  IF IsNaN(a) \/ IsNaN(b) THEN NaN
  ELSE LET g1 == Gcd(Abs(a.n), b.d)
           g2 == Gcd(Abs(b.n), a.d)
       IN  [n |-> (a.n \div g1) * (b.n \div g2),
            d |-> (a.d \div g2) * (b.d \div g1)]

RAdd(a, b) ==
  IF IsNaN(a) \/ IsNaN(b) THEN NaN
  ELSE LET g == Gcd(a.d, b.d)
       IN  Rat(a.n * (b.d \div g) + b.n * (a.d \div g), (a.d \div g) * b.d)

RSub(a, b) == RAdd(a, IF IsNaN(b) THEN NaN ELSE [n |-> -b.n, d |-> b.d])

\* a / b for a >= 0, b >= 0; 0/0 is NaN as in IEEE arithmetic (a/0 with a > 0,
\* which is inf, does not arise: the total is a sum of the terms it divides)
RDiv(a, b) ==
  IF IsNaN(a) \/ IsNaN(b) \/ b.n = 0 THEN NaN
  ELSE RMul(a, [n |-> b.d, d |-> b.n])

\* a < b of IEEE arithmetic: false when either side is NaN
RLess(a, b) == ~IsNaN(a) /\ ~IsNaN(b) /\ a.n * b.d < b.n * a.d

RECURSIVE RPow(_, _)
RPow(a, k) == IF k = 0 THEN One ELSE RMul(a, RPow(a, k - 1))

\* np.sum of a sequence of numbers
RECURSIVE RSum(_)
RSum(s) == IF s = <<>> THEN Zero ELSE RAdd(s[1], RSum(Tail(s)))

\* np.sum of the elements of an array built from a list of values
RECURSIVE SumValues(_)
SumValues(s) ==
  IF s = <<>> THEN 0
  ELSE LET v == s[1]
       IN  (IF Len(v) = 1 THEN v[1] ELSE v[1] + v[2]) + SumValues(Tail(s))

-----------------------------------------------------------------------------
(* ConstantHazard *)

\* ConstantHazard(rate): the hazard rate the filters are constructed with
hazard_rate == Rat(4, 1)

\* hazard(run_lengths): 1 / rate for every run length
Hazard(n) == [i \in 1..n |-> RDiv(One, hazard_rate)]

-----------------------------------------------------------------------------
(* ExponentialConjugate: exponential likelihood with a gamma prior *)

\* __init__ and clear(): no prior, empty parameter arrays
ExpClear == [shape_prior |-> None, scale_prior |-> None, shapes |-> <<>>, scales |-> <<>>]

\* learn(learning_sample): shape prior = shape[0], scale prior = np.sum; the
\* model's earlier state is overwritten, learned or not
ExpLearn(lik, sample) ==
  [lik EXCEPT
     !.shape_prior = Some(Len(sample)),
     !.scale_prior = Some(SumValues(sample)),
     !.shapes      = <<Len(sample)>>,
     !.scales      = <<SumValues(sample)>>]

\* clear() that empties the parameter arrays and keeps the prior
ExpClearedArrays(lik) == [lik EXCEPT !.shapes = <<>>, !.scales = <<>>]

\* clear(): the prior and the parameter arrays are reset
ExpCleared(lik) ==
  [lik EXCEPT !.shape_prior = None, !.scale_prior = None, !.shapes = <<>>, !.scales = <<>>]

\* the asserts opening update and predict
ExpLearned(lik) == lik.shape_prior # None /\ lik.scale_prior # None

\* update(observation) with the prior put after the advanced parameters
ExpUpdateAppended(lik, x) ==
  [lik EXCEPT
     !.shapes = [i \in 1..Len(lik.shapes) |-> lik.shapes[i] + 1] \o <<lik.shape_prior[1]>>,
     !.scales = [i \in 1..Len(lik.scales) |-> lik.scales[i] + x] \o <<lik.scale_prior[1]>>]

\* update(observation), on a learned model
ExpUpdate(lik, x) ==
  [lik EXCEPT
     !.shapes = <<lik.shape_prior[1]>> \o [i \in 1..Len(lik.shapes) |-> lik.shapes[i] + 1],
     !.scales = <<lik.scale_prior[1]>> \o [i \in 1..Len(lik.scales) |-> lik.scales[i] + x]]

\* scipy.stats.lomax.pdf(x, c, loc=0, scale): NaN for invalid parameters, 0
\* outside the support, (c / scale) * (1 + x / scale)^-(c + 1) inside
LomaxPdf(x, c, scale) ==
  IF ~(c > 0 /\ scale > 0) THEN NaN
  ELSE IF x < 0 THEN Zero
  ELSE RMul(Rat(c, scale), RPow(Rat(scale, scale + x), c + 1))

\* np.nan_to_num(x, nan=0.0)
NanToNum(r) == IF IsNaN(r) THEN Zero ELSE r

\* predict(observation), on a learned model: one density per run length
ExpPredict(lik, x) ==
  [i \in 1..Len(lik.shapes) |-> NanToNum(LomaxPdf(x, lik.shapes[i], lik.scales[i]))]

-----------------------------------------------------------------------------
(* ExponentialConjugateWithPriorProbability *)

\* probability_of_learned_prior(sample): the product of the prior predictive
\* densities of the sample, NaN densities counted as 0
RECURSIVE ExpPriorDensities(_, _)
ExpPriorDensities(lik, sample) ==
  IF sample = <<>> THEN One
  ELSE RMul(NanToNum(LomaxPdf(Val(sample[1]), lik.shape_prior[1], lik.scale_prior[1])),
            ExpPriorDensities(lik, Tail(sample)))

-----------------------------------------------------------------------------
(* GaussianConjugate: normal likelihood with a normal-inverse-gamma prior *)

\* __init__ and clear(): no prior, empty parameter arrays
GaussClear ==
  [mu_0 |-> None, k_0 |-> None, alpha_0 |-> None, beta_0 |-> None,
   mu_params |-> <<>>, k_params |-> <<>>, alpha_params |-> <<>>, beta_params |-> <<>>]

\* data.mean() of a non-empty sample
Mean(sample) == Rat(SumValues(sample), Len(sample))

\* ((data - mu) ** 2).sum() / 2.0
HalfSquaredDeviations(sample, mu) ==
  RDiv(RSum([i \in 1..Len(sample) |-> RPow(RSub(Rat(Val(sample[i]), 1), mu), 2)]),
       Rat(2, 1))

\* learn(learning_sample), the assignments once mu_0 and beta_0 are computed
GaussLearnPriors(lik, sample_size, mu_0, beta_0) ==
  [lik EXCEPT
     !.mu_0         = Some(mu_0),
     !.k_0          = Some(Rat(sample_size, 1)),
     !.alpha_0      = Some(Rat(sample_size, 2)),
     !.beta_0       = Some(beta_0),
     !.mu_params    = <<mu_0>>,
     !.k_params     = <<Rat(sample_size, 1)>>,
     !.alpha_params = <<Rat(sample_size, 2)>>,
     !.beta_params  = <<beta_0>>]

\* learn(learning_sample): the model's earlier state is overwritten, learned or not
GaussLearn(lik, sample) ==
  GaussLearnPriors(lik, Len(sample), Mean(sample),
                   HalfSquaredDeviations(sample, Mean(sample)))

\* the asserts opening update
GaussLearned(lik) ==
  lik.mu_0 # None /\ lik.k_0 # None /\ lik.alpha_0 # None /\ lik.beta_0 # None

\* the asserts on mu_divider and beta_divider in update
GaussDividersNonZero(lik) ==
  \A i \in 1..Len(lik.k_params) :
     /\ RAdd(lik.k_params[i], One).n # 0
     /\ RAdd(RMul(Rat(2, 1), lik.k_params[i]), One).n # 0

\* update(observation), past its asserts
GaussUpdate(lik, x) ==
  [lik EXCEPT
     !.mu_params =
        <<lik.mu_0[1]>> \o
        [i \in 1..Len(lik.mu_params) |->
           RDiv(RAdd(RMul(lik.mu_params[i], lik.k_params[i]), Rat(x, 1)),
                RAdd(lik.k_params[i], One))],
     !.k_params =
        <<lik.k_0[1]>> \o
        [i \in 1..Len(lik.k_params) |-> RAdd(lik.k_params[i], One)],
     !.alpha_params =
        <<lik.alpha_0[1]>> \o
        [i \in 1..Len(lik.alpha_params) |-> RAdd(lik.alpha_params[i], Rat(1, 2))],
     !.beta_params =
        <<lik.beta_0[1]>> \o
        [i \in 1..Len(lik.beta_params) |->
           RAdd(lik.beta_params[i],
                RDiv(RMul(lik.k_params[i], RPow(RSub(Rat(x, 1), lik.mu_params[i]), 2)),
                     RAdd(RMul(Rat(2, 1), lik.k_params[i]), One)))]]

\* the assert on scales_divider in predict; it holds for empty arrays
GaussScalesNonZero(lik) ==
  \A i \in 1..Len(lik.alpha_params) :
     RMul(lik.alpha_params[i], lik.k_params[i]).n # 0

\* stats.t.pdf(x, df, loc, scale): NaN for invalid parameters (scale 0 among
\* them); otherwise the density is kept as the term it is computed from, with
\* the square of the scale (its square root is irrational)
StudentTPdf(x, df, loc, scale_squared) ==
  IF IsNaN(scale_squared) \/ scale_squared.n <= 0 \/ IsNaN(df) \/ df.n <= 0
  THEN NaN
  ELSE [pdf |-> "t", x |-> x, df |-> df, loc |-> loc, scale_squared |-> scale_squared]

\* predict(observation), past its assert: one density per run length, none
\* for a model without parameters
GaussPredict(lik, x) ==
  [i \in 1..Len(lik.mu_params) |->
     StudentTPdf(x, RMul(Rat(2, 1), lik.alpha_params[i]), lik.mu_params[i],
                 RDiv(RMul(lik.beta_params[i], RAdd(lik.k_params[i], One)),
                      RMul(lik.alpha_params[i], lik.k_params[i])))]

-----------------------------------------------------------------------------
(* The three likelihoods as objects: a call returns a value or raises *)

Classes == {"GaussianConjugate", "ExponentialConjugate", "HeuristicGaussianVsExponential"}

\* the call returned: the object's new state and the value
Returned(state, result) == [state |-> state, fault |-> "none", result |-> result]

\* the call raised: the object's state at the raise
Raised(state, fault) == [state |-> state, fault |-> fault, result |-> None]

\* GaussianConjugate: learn, update, predict, clear
GaussianCall(state, method_name, argument) ==
  CASE method_name = "learn" -> Returned(GaussLearn(state, argument), None)
    [] method_name = "update" ->
         IF ~GaussLearned(state) \/ ~GaussDividersNonZero(state)
         THEN Raised(state, "AssertionError")
         ELSE Returned(GaussUpdate(state, Val(argument)), None)
    [] method_name = "predict" ->
         IF ~GaussScalesNonZero(state) THEN Raised(state, "AssertionError")
         ELSE Returned(state, Some(GaussPredict(state, Val(argument))))
    [] OTHER -> Returned(GaussClear, None)

\* ExponentialConjugate: learn, update, predict, clear
ExponentialCall(state, method_name, argument) ==
  CASE method_name = "learn" -> Returned(ExpLearn(state, argument), None)
    [] method_name = "update" ->
         IF ~ExpLearned(state) THEN Raised(state, "AssertionError")
         ELSE Returned(ExpUpdate(state, Val(argument)), None)
    [] method_name = "predict" ->
         IF ~ExpLearned(state) THEN Raised(state, "AssertionError")
         ELSE Returned(state, Some(ExpPredict(state, Val(argument))))
    [] OTHER -> Returned(ExpCleared(state), None)

\* HeuristicGaussianVsExponential.__init__ and clear(): no underlying likelihood
HeuristicClear == [likelihood |-> None]

\* the observations handed to a likelihood object on its own
ModelObs == {Scalar(0), Scalar(1)}

\* learning samples: non-empty arrays of observations
Samples == UNION {[1..n -> ModelObs] : n \in 1..MaxSample}

\* the observations handed to a HeuristicGaussianVsExponential object on its
\* own: outside and inside the support of the exponential model
SelectionObs == {Scalar(-1), Scalar(1)}

\* learning samples with negative observations among them
SelectionSamples == UNION {[1..n -> SelectionObs] : n \in 1..MaxSample}

\* learn that retains the exponential model when the gaussian one makes the
\* sample more probable
HeuristicChoiceLower(sample, gaussian_wins) ==
  IF GaussLearn(GaussClear, sample).beta_0[1].n = 0 THEN "ExponentialConjugate"
  ELSE IF ExpPriorDensities(ExpLearn(ExpClear, sample), sample).n = 0
  THEN "ExponentialConjugate"
  ELSE IF gaussian_wins THEN "GaussianConjugate" ELSE "ExponentialConjugate"

\* learn: gaussian if gaussian_probability >= exponential_probability else
\* exponential. The gaussian probability is NaN when the sample has no spread
\* (scale 0), and any number is >= 0; otherwise the comparison of the two
\* products of densities is the input gaussian_wins
HeuristicChoice(sample, gaussian_wins) ==
  IF GaussLearn(GaussClear, sample).beta_0[1].n = 0 THEN "ExponentialConjugate"
  ELSE IF ExpPriorDensities(ExpLearn(ExpClear, sample), sample).n = 0
  THEN "GaussianConjugate"
  ELSE IF gaussian_wins THEN "GaussianConjugate" ELSE "ExponentialConjugate"

\* learn(learning_sample), the assignment to self.__likelihood
HeuristicLearn(sample, class) ==
  [likelihood |->
     Some([class |-> class,
           state |-> IF class = "GaussianConjugate" THEN GaussLearn(GaussClear, sample)
                     ELSE ExpLearn(ExpClear, sample)])]

\* predict and update, past the assert: the underlying likelihood's outcome
Delegated(underlying, outcome) ==
  [outcome EXCEPT
     !.state = [likelihood |-> Some([underlying EXCEPT !.state = outcome.state])]]

\* HeuristicGaussianVsExponential: learn, update, predict, clear
HeuristicCall(state, method_name, argument, gaussian_wins) ==
  CASE method_name = "learn" ->
         Returned(HeuristicLearn(argument, HeuristicChoice(argument, gaussian_wins)), None)
    [] method_name \in {"update", "predict"} ->
         IF state.likelihood = None THEN Raised(state, "AssertionError")
         ELSE Delegated(state.likelihood[1],
                        IF state.likelihood[1].class = "GaussianConjugate"
                        THEN GaussianCall(state.likelihood[1].state, method_name, argument)
                        ELSE ExponentialCall(state.likelihood[1].state, method_name, argument))
    [] OTHER -> Returned(HeuristicClear, None)

\* a likelihood just constructed; forgotten, learned_from and updated_with are
\* the caller's record: what the model held at the last clear(), the sample
\* of the last learn that returned and the observations of the update calls
\* that returned since
NewLikelihood(class) ==
  [class  |-> class,
   state  |-> CASE class = "GaussianConjugate" -> GaussClear
                [] class = "ExponentialConjugate" -> ExpClear
                [] OTHER -> HeuristicClear,
   called |-> "__init__",
   count  |-> 0,
   fault  |-> "none",
   result |-> None,
   learned_from |-> None,
   updated_with |-> <<>>,
   forgotten    |-> None]

\* the object after the call whose outcome is given
AfterLikelihoodCall(lik, method_name, outcome) ==
  [lik EXCEPT
     !.state  = outcome.state,
     !.called = method_name,
     !.count  = @ + 1,
     !.fault  = outcome.fault,
     !.result = outcome.result]

\* the caller's record once method_name(argument) has returned or raised
Recorded(lik, method_name, argument) ==
  [lik EXCEPT
     !.forgotten =
        IF method_name = "clear" /\ lik.learned_from # None
        THEN Some([sample |-> lik.learned_from[1], updates |-> lik.updated_with])
        ELSE @,
     !.learned_from =
        IF method_name = "learn" /\ lik.fault = "none" THEN Some(argument)
        ELSE IF method_name = "clear" THEN None
        ELSE @,
     !.updated_with =
        IF method_name \in {"learn", "clear"} /\ lik.fault = "none" THEN <<>>
        ELSE IF method_name = "update" /\ lik.fault = "none" THEN Append(@, argument)
        ELSE @]

\* method_name(argument) on a likelihood object
LikelihoodCall(lik, method_name, argument, gaussian_wins) ==
  CHOOSE after \in
    {Recorded(AfterLikelihoodCall(lik, method_name, outcome), method_name, argument) :
       outcome \in
         {CASE lik.class = "GaussianConjugate" ->
                 GaussianCall(lik.state, method_name, argument)
            [] lik.class = "ExponentialConjugate" ->
                 ExponentialCall(lik.state, method_name, argument)
            [] OTHER -> HeuristicCall(lik.state, method_name, argument, gaussian_wins)}} : TRUE

\* the model holds a prior: learn was called and clear was not called since
IsLearned(lik) ==
  CASE lik.class = "GaussianConjugate" -> GaussLearned(lik.state)
    [] lik.class = "ExponentialConjugate" -> ExpLearned(lik.state)
    [] OTHER -> lik.state.likelihood # None

-----------------------------------------------------------------------------
(* ThresholdDetector and ArgmaxLocalizer *)

\* ThresholdDetector(threshold): the threshold the filters are constructed with
threshold == Rat(3, 4)

\* detect with the comparison growth_probs[-1] <= threshold
ThresholdDetectAtMost(growth_probs) ==
  /\ Len(growth_probs) > 0
  /\ ~RLess(threshold, growth_probs[Len(growth_probs)])
  /\ ~IsNaN(growth_probs[Len(growth_probs)])

\* ThresholdDetector.detect(growth_probs)
ThresholdDetect(growth_probs) ==
  Len(growth_probs) > 0 /\ RLess(growth_probs[Len(growth_probs)], threshold)

\* np.argmax of a non-empty array, 0-based: the first NaN if there is one,
\* else the first maximum
RECURSIVE ArgmaxFrom(_, _, _)
ArgmaxFrom(a, i, best) ==
  IF i > Len(a) THEN best - 1
  ELSE IF IsNaN(a[best]) THEN best - 1
  ELSE IF IsNaN(a[i]) \/ RLess(a[best], a[i]) THEN ArgmaxFrom(a, i + 1, i)
  ELSE ArgmaxFrom(a, i + 1, best)

Argmax(a) == ArgmaxFrom(a, 2, 1)

\* localize with the argmax over the whole array
ArgmaxLocalizeAll(growth_probs) ==
  IF Len(growth_probs) = 1 THEN 0 ELSE Argmax(growth_probs)

\* ArgmaxLocalizer.localize(growth_probs), on a non-empty distribution
ArgmaxLocalize(growth_probs) ==
  IF Len(growth_probs) = 1 THEN 0
  ELSE Argmax(SubSeq(growth_probs, 1, Len(growth_probs) - 1))

\* a ThresholdDetector or ArgmaxLocalizer just constructed: the detector's
\* only attribute is its threshold, the localizer has none; growth_probs is
\* the caller's array as the last call left it, cleared tells that clear()
\* was called
NewPart(class) ==
  [class  |-> class,
   state  |-> IF class = "ThresholdDetector" THEN Some(threshold) ELSE None,
   called |-> "__init__",
   count  |-> 0,
   fault  |-> "none",
   result |-> None,
   growth_probs |-> None,
   cleared      |-> FALSE]

\* ThresholdDetector.detect(growth_probs): nothing is assigned
DetectorDetect(part, growth_probs) ==
  [part EXCEPT
     !.called = "detect",
     !.count  = @ + 1,
     !.result = Some(ThresholdDetect(growth_probs)),
     !.growth_probs = Some(growth_probs)]

\* ThresholdDetector.clear(): pass
DetectorClear(part) ==
  [part EXCEPT
     !.called  = "clear",
     !.count   = @ + 1,
     !.result  = None,
     !.growth_probs = None,
     !.cleared = TRUE]

\* ArgmaxLocalizer.localize(growth_probs): the assert on the length, then the
\* argmax of a slice; nothing is assigned
LocalizerLocalize(part, growth_probs) ==
  [part EXCEPT
     !.called = "localize",
     !.count  = @ + 1,
     !.fault  = IF Len(growth_probs) > 0 THEN "none" ELSE "AssertionError",
     !.result = IF Len(growth_probs) > 0 THEN Some(ArgmaxLocalize(growth_probs)) ELSE None,
     !.growth_probs = Some(growth_probs)]

-----------------------------------------------------------------------------
(* BayesianOnlineCpd: the filter.  A filter object is a record of its       *)
(* attributes; `fault` records how the call in progress ended: "none" (it   *)
(* returned), the exception it raised, or "nontermination" (it was still    *)
(* inside its retraining loop after MaxLoopIter iterations); `result` is    *)
(* what the last call returned: Some(value), or None before any call and    *)
(* after clear().                                                           *)

\* __init__(hazard, likelihood, learning_sample_size, detector, localizer)
NewFilter(learning_sample_size) ==
  [learning_sample_size |-> learning_sample_size,
   likelihood           |-> ExpClear,
   training_data        |-> <<>>,
   data_history         |-> <<>>,
   current_time         |-> 0,
   is_training          |-> TRUE,
   run_length_probs     |-> <<>>,
   was_change_point     |-> FALSE,
   change_point         |-> None,
   fault                |-> "none",
   result               |-> None]

\* a clear() that leaves the training state, the buffer and the distribution
\* in place: what C8 must tell from clear()
ClearHistoryOnly(f) ==
  [f EXCEPT
     !.data_history     = <<>>,
     !.current_time     = 0,
     !.was_change_point = FALSE,
     !.change_point     = None,
     !.result           = None]

\* clear(): the likelihood and the detector are not touched
Clear(f) ==
  [f EXCEPT
     !.training_data    = <<>>,
     !.data_history     = <<>>,
     !.current_time     = 0,
     !.is_training      = TRUE,
     !.run_length_probs = <<>>,
     !.was_change_point = FALSE,
     !.change_point     = None,
     !.result           = None]

\* __learn(value) with the sample taken one observation too late
LearnLate(f, value) ==
  LET training_data == Append(f.training_data, value)
  IN  IF Len(training_data) = f.learning_sample_size + 1
      THEN [f EXCEPT
              !.training_data    = training_data,
              !.likelihood       = ExpLearn(ExpClear, training_data),
              !.is_training      = FALSE,
              !.run_length_probs = <<One>>]
      ELSE [f EXCEPT !.training_data = training_data]

\* __learn(value)
Learn(f, value) ==
  LET training_data == Append(f.training_data, value)
  IN  IF Len(training_data) = f.learning_sample_size
      THEN [f EXCEPT
              !.training_data    = training_data,
              !.likelihood       = ExpLearn(ExpClear, training_data),
              !.is_training      = FALSE,
              !.run_length_probs = <<One>>]
      ELSE [f EXCEPT !.training_data = training_data]

\* growth_probs weighted by the hazards instead of by their complements
GrowthProbsByHazard(run_length_probs, hazards, predictive_prob) ==
  [i \in 1..Len(run_length_probs) |->
     RMul(RMul(run_length_probs[i], hazards[i]), predictive_prob[i])]

\* growth_probs = run_length_probs * (1 - hazards) * predictive_prob
GrowthProbs(run_length_probs, hazards, predictive_prob) ==
  [i \in 1..Len(run_length_probs) |->
     RMul(RMul(run_length_probs[i], RSub(One, hazards[i])), predictive_prob[i])]

\* reset_prob = np.sum(run_length_probs * hazards * predictive_prob)
ResetProb(run_length_probs, hazards, predictive_prob) ==
  RSum([i \in 1..Len(run_length_probs) |->
          RMul(RMul(run_length_probs[i], hazards[i]), predictive_prob[i])])

\* new_probs /= np.sum(new_probs)
Normalize(new_probs) ==
  LET total == RSum(new_probs)
  IN  [i \in 1..Len(new_probs) |-> RDiv(new_probs[i], total)]

\* __bayesian_update(value), from the arithmetic on: the arrays of different
\* lengths do not broadcast; otherwise the new distribution is stored and the
\* likelihood is updated
UpdateRunLengthProbs(f, value, predictive_prob, hazards) ==
  IF Len(predictive_prob) # Len(f.run_length_probs)
  THEN [f EXCEPT !.fault = "ValueError"]
  ELSE [f EXCEPT
          !.run_length_probs =
             Normalize(<<ResetProb(f.run_length_probs, hazards, predictive_prob)>>
                       \o GrowthProbs(f.run_length_probs, hazards, predictive_prob)),
          !.likelihood = ExpUpdate(f.likelihood, Val(value))]

\* __bayesian_update(value): predict asserts that the likelihood is learned
BayesianUpdate(f, value) ==
  IF ~ExpLearned(f.likelihood) THEN [f EXCEPT !.fault = "AssertionError"]
  ELSE UpdateRunLengthProbs(f, value, ExpPredict(f.likelihood, Val(value)),
                            Hazard(Len(f.run_length_probs)))

\* for value in self.__training_data: self.__learn(value)
\* the list iterated over is the list __learn appends to; i is the iterator's index
RECURSIVE RetrainLoop(_, _, _)
RetrainLoop(f, i, iterations_left) ==
  IF i >= Len(f.training_data) THEN f
  ELSE IF iterations_left = 0 THEN [f EXCEPT !.fault = "nontermination"]
  ELSE RetrainLoop(Learn(f, f.training_data[i + 1]), i + 1, iterations_left - 1)

\* for value in self.__data_history[learning_sample_size:]: self.__bayesian_update(value)
RECURSIVE ReplayLoop(_, _)
ReplayLoop(f, values) ==
  IF values = <<>> \/ f.fault # "none" THEN f
  ELSE ReplayLoop(BayesianUpdate(f, Head(values)), Tail(values))

\* a change point counted from the start of the retained window
ChangePointLocationInWindow(current_time, run_length) == run_length

\* change_point_location = current_time - run_length
ChangePointLocation(current_time, run_length) == current_time - run_length

\* __handle_localization(), the replay that follows the retraining loop
Replay(f) ==
  IF f.fault # "none" THEN f
  ELSE ReplayLoop(f, SliceFrom(f.data_history, f.learning_sample_size))

\* __handle_localization(), from the truncation of the history on
Retrain(f, run_length, retained) ==
  IF Len(retained) >= f.learning_sample_size
  THEN Replay(RetrainLoop(
                [f EXCEPT
                   !.training_data = SliceFirst(retained, f.learning_sample_size),
                   !.data_history  = retained,
                   !.change_point  = Some(ChangePointLocation(f.current_time, run_length)),
                   !.likelihood    = ExpClear,
                   !.is_training   = TRUE],
                0, MaxLoopIter))
  ELSE [f EXCEPT
          !.training_data = retained,
          !.data_history  = retained,
          !.change_point  = Some(ChangePointLocation(f.current_time, run_length)),
          !.likelihood    = ExpClear,
          !.is_training   = TRUE]

\* __handle_localization(), the truncation: data_history[-run_length:]
Truncate(f, run_length) == Retrain(f, run_length, SliceLast(f.data_history, run_length))

\* __handle_localization(): the localizer asserts a non-empty distribution
HandleLocalization(f) ==
  IF f.run_length_probs = <<>> THEN [f EXCEPT !.fault = "AssertionError"]
  ELSE Truncate(f, ArgmaxLocalize(f.run_length_probs))

\* __handle_detection()
HandleDetection(f) ==
  Learn([f EXCEPT
           !.data_history  = SliceLast(f.data_history, 1),
           !.training_data = SliceLast(f.data_history, 1),
           !.likelihood    = ExpClear,
           !.is_training   = TRUE],
        f.data_history[Len(f.data_history)])

\* __process_point(value, with_localization), after the Bayesian update
HandleChangePoint(f, with_localization) ==
  IF f.fault # "none" \/ ~ThresholdDetect(f.run_length_probs) THEN f
  ELSE IF with_localization
       THEN HandleLocalization([f EXCEPT !.was_change_point = TRUE])
       ELSE HandleDetection([f EXCEPT !.was_change_point = TRUE])

\* __process_point(value, with_localization), after the observation is recorded
LearnOrUpdate(f, value, with_localization) ==
  IF f.is_training THEN Learn(f, value)
  ELSE HandleChangePoint(BayesianUpdate(f, value), with_localization)

\* __process_point(value, with_localization)
ProcessPoint(f, value, with_localization) ==
  LearnOrUpdate([f EXCEPT
                   !.data_history = Append(@, value),
                   !.current_time = @ + 1],
                value, with_localization)

\* value is npt.NDArray[np.float64]: identity with a type alias object that the
\* subscription builds anew; no observation, scalar or array, is that object
IsNDArrayAlias(value) == FALSE

\* np.float64(value): a scalar stays the scalar, an array stays an array
NpFloat64(value) == value

\* detect(value), after __process_point: the flag is returned and reset
ReturnDetected(f) ==
  IF f.fault # "none" THEN f
  ELSE [f EXCEPT !.result = Some(f.was_change_point), !.was_change_point = FALSE]

\* detect(value)
FilterDetect(f, value) ==
  IF IsNDArrayAlias(value) THEN [f EXCEPT !.fault = "TypeError"]
  ELSE ReturnDetected(ProcessPoint(f, NpFloat64(value), FALSE))

\* localize(value), after __process_point: the change point is returned,
\* flag and change point are reset
ReturnLocated(f) ==
  IF f.fault # "none" THEN f
  ELSE [f EXCEPT
          !.result           = Some(f.change_point),
          !.was_change_point = FALSE,
          !.change_point     = None]

\* localize(value)
FilterLocalize(f, value) ==
  IF IsNDArrayAlias(value) THEN [f EXCEPT !.fault = "TypeError"]
  ELSE ReturnLocated(ProcessPoint(f, NpFloat64(value), TRUE))


-----------------------------------------------------------------------------
(* BayesianLinearHeuristic: the wrapper.  A wrapper object is a record of    *)
(* its attributes, with `fault` and `result` as for the filter; the          *)
(* duplicating algorithm is None or Some(filter).                            *)

\* a guard that lets equal timing parameters through: what C10 must tell from
\* the guard of __init__
WeakTiming(time_before_duplicate_start, duplicate_preparation_time) ==
  /\ time_before_duplicate_start >= duplicate_preparation_time
  /\ duplicate_preparation_time > 0

\* time_before_duplicate_start > duplicate_preparation_time > 0
ValidTiming(time_before_duplicate_start, duplicate_preparation_time) ==
  /\ time_before_duplicate_start > duplicate_preparation_time
  /\ duplicate_preparation_time > 0

\* __init__(algorithm, time_before_duplicate_start, duplicate_preparation_time)
\* when the timing is valid
NewHeuristic(algorithm, time_before_duplicate_start, duplicate_preparation_time) ==
  [state                       |-> "constructed",
   original_algorithm          |-> algorithm,
   time_before_duplicate_start |-> time_before_duplicate_start,
   duplicate_preparation_time  |-> duplicate_preparation_time,
   main_algorithm              |-> algorithm,
   duplicating_algorithm       |-> None,
   time                        |-> 0,
   last_algorithm_start_time   |-> 0,
   fault                       |-> "none",
   result                      |-> None]

\* __init__ when it raises: no object exists; the arguments are kept for reference
FailedHeuristic(time_before_duplicate_start, duplicate_preparation_time) ==
  [state                       |-> "failed",
   time_before_duplicate_start |-> time_before_duplicate_start,
   duplicate_preparation_time  |-> duplicate_preparation_time,
   fault                       |-> "ValueError"]

\* BayesianLinearHeuristic(algorithm, ...): the object, or the ValueError
ConstructHeuristic(algorithm, time_before_duplicate_start, duplicate_preparation_time) ==
  IF ~ValidTiming(time_before_duplicate_start, duplicate_preparation_time)
  THEN FailedHeuristic(time_before_duplicate_start, duplicate_preparation_time)
  ELSE NewHeuristic(algorithm, time_before_duplicate_start, duplicate_preparation_time)

\* __work_time
WorkTime(w) == w.time - w.last_algorithm_start_time

\* stage_end = time_before_duplicate_start + duplicate_preparation_time
StageEnd(w) == w.time_before_duplicate_start + w.duplicate_preparation_time

\* getattr(algorithm, method_name)(observation)
FilterCall(f, method_name, observation) ==
  IF method_name = "detect" THEN FilterDetect(f, observation)
  ELSE FilterLocalize(f, observation)

\* _handle_duplicate_preparation, the training branch, after the call on the
\* duplicating algorithm: its result is dropped, its exception propagates
FedDuplicate(w, duplicate) ==
  [w EXCEPT !.duplicating_algorithm = Some(duplicate), !.fault = duplicate.fault]

\* _handle_duplicate_preparation(observation, method_name)
HandleDuplicatePreparation(w, observation, method_name) ==
  IF WorkTime(w) = w.time_before_duplicate_start
  THEN [w EXCEPT !.duplicating_algorithm = Some(w.original_algorithm)]
  ELSE IF w.time_before_duplicate_start < WorkTime(w) /\ WorkTime(w) < StageEnd(w)
  THEN IF w.duplicating_algorithm # None
       THEN FedDuplicate(w, FilterCall(w.duplicating_algorithm[1], method_name, observation))
       ELSE w
  ELSE IF WorkTime(w) = StageEnd(w)
  THEN IF w.duplicating_algorithm = None
       THEN [w EXCEPT !.fault = "AssertionError"]
       ELSE [w EXCEPT
               !.main_algorithm            = w.duplicating_algorithm[1],
               !.duplicating_algorithm     = None,
               !.last_algorithm_start_time = w.time - w.duplicate_preparation_time]
  ELSE w

\* detect/localize, the end of the no-change path: self.__time += 1; return
NoChange(w, result) ==
  IF w.fault # "none" THEN w
  ELSE [w EXCEPT !.time = @ + 1, !.result = Some(result)]

\* detect whose change branch leaves the baseline where it was
AfterMainDetectKeepingBaseline(w, main, observation) ==
  IF main.fault # "none"
  THEN [w EXCEPT !.main_algorithm = main, !.fault = main.fault]
  ELSE IF main.result[1]
  THEN [w EXCEPT
          !.main_algorithm            = main,
          !.duplicating_algorithm     = None,
          !.time                      = @ + 1,
          !.result                    = Some(TRUE)]
  ELSE NoChange(HandleDuplicatePreparation([w EXCEPT !.main_algorithm = main],
                                           observation, "detect"),
                FALSE)

\* detect(observation), after the call on the main algorithm
AfterMainDetect(w, main, observation) ==
  IF main.fault # "none"
  THEN [w EXCEPT !.main_algorithm = main, !.fault = main.fault]
  ELSE IF main.result[1]
  THEN [w EXCEPT
          !.main_algorithm            = main,
          !.last_algorithm_start_time = w.time,
          !.duplicating_algorithm     = None,
          !.time                      = @ + 1,
          !.result                    = Some(TRUE)]
  ELSE NoChange(HandleDuplicatePreparation([w EXCEPT !.main_algorithm = main],
                                           observation, "detect"),
                FALSE)

\* detect(observation)
HeuristicDetect(w, observation) ==
  IF IsNDArrayAlias(observation) THEN [w EXCEPT !.fault = "TypeError"]
  ELSE AfterMainDetect(w, FilterDetect(w.main_algorithm, observation), observation)

\* localize whose change branch keeps the duplicating algorithm
AfterMainLocalizeKeepingDuplicate(w, main, observation) ==
  IF main.fault # "none"
  THEN [w EXCEPT !.main_algorithm = main, !.fault = main.fault]
  ELSE IF main.result[1] # None
  THEN [w EXCEPT
          !.main_algorithm            = main,
          !.last_algorithm_start_time = w.last_algorithm_start_time + main.result[1][1],
          !.time                      = @ + 1,
          !.result = Some(Some(w.last_algorithm_start_time + main.result[1][1]))]
  ELSE NoChange(HandleDuplicatePreparation([w EXCEPT !.main_algorithm = main],
                                           observation, "localize"),
                None)

\* localize(observation), after the call on the main algorithm
AfterMainLocalize(w, main, observation) ==
  IF main.fault # "none"
  THEN [w EXCEPT !.main_algorithm = main, !.fault = main.fault]
  ELSE IF main.result[1] # None
  THEN [w EXCEPT
          !.main_algorithm            = main,
          !.last_algorithm_start_time = w.last_algorithm_start_time + main.result[1][1],
          !.duplicating_algorithm     = None,
          !.time                      = @ + 1,
          !.result = Some(Some(w.last_algorithm_start_time + main.result[1][1]))]
  ELSE NoChange(HandleDuplicatePreparation([w EXCEPT !.main_algorithm = main],
                                           observation, "localize"),
                None)

\* localize(observation)
HeuristicLocalize(w, observation) ==
  IF IsNDArrayAlias(observation) THEN [w EXCEPT !.fault = "TypeError"]
  ELSE AfterMainLocalize(w, FilterLocalize(w.main_algorithm, observation), observation)

-----------------------------------------------------------------------------
(* OnlineCpdCore: the driver.  A driver object is the provider it was given   *)
(* and the state of the iterator its detect() or localize() returned: how     *)
(* many observations it pulled, what it yielded, whether it is exhausted.     *)

\* OnlineCpdCore(algorithm, data_provider) and the iterator of detect() or
\* localize(): a generator, of which nothing has run yet
NewCore(data_provider) ==
  [state         |-> "iterating",
   data_provider |-> data_provider,
   pulled        |-> 0,
   yielded       |-> <<>>]

\* next(iterator) when the provider has another observation: the observation
\* is pulled; the element is yielded if the algorithm's call returned
CoreYield(core, algorithm) ==
  IF algorithm.fault # "none" THEN [core EXCEPT !.pulled = @ + 1]
  ELSE [core EXCEPT !.pulled = @ + 1, !.yielded = Append(@, algorithm.result[1])]

\* calling the algorithm directly, observation by observation, and collecting
\* what it returns, up to the first call that does not return
RECURSIVE AlgorithmResults(_, _, _)
RECURSIVE ResultsAfterCall(_, _, _)
AlgorithmResults(f, method_name, observations) ==
  IF observations = <<>> THEN <<>>
  ELSE ResultsAfterCall(FilterCall(f, method_name, Head(observations)), method_name,
                        Tail(observations))

ResultsAfterCall(f, method_name, observations) ==
  IF f.fault # "none" THEN <<>>
  ELSE <<f.result[1]>> \o AlgorithmResults(f, method_name, observations)

-----------------------------------------------------------------------------
(* State *)

VARIABLES
  filter,    \* the BayesianOnlineCpd object under test
  mode,      \* the method its caller uses: "detect" or "localize"
  calls,     \* detect/localize calls made on it since construction
  clears,    \* clear() calls made on it
  twin,      \* a second, independently constructed filter
  wrapper,   \* the BayesianLinearHeuristic object
  driver,    \* the OnlineCpdCore object and the iterator it returned
  model      \* a likelihood, detector or localizer object used on its own

vars == <<filter, mode, calls, clears, twin, wrapper, driver, model>>

Modes == {"detect", "localize"}

Absent == [state |-> "absent"]

-----------------------------------------------------------------------------
(* One filter driven by its caller *)

Init ==
  /\ filter \in {NewFilter(n) : n \in 1..MaxLearn}
  /\ mode \in Modes
  /\ calls = 0
  /\ clears = 0
  /\ twin = Absent
  /\ wrapper = Absent
  /\ driver = Absent
  /\ model = Absent

\* no array was accepted into the history since construction or the last clear()
ScalarHistory(f) == \A i \in 1..Len(f.data_history) : IsScalar(f.data_history[i])

\* the caller can make another call: the last one returned, the bound allows
\* it, and the filter holds scalars only
CanCall == filter.fault = "none" /\ calls < MaxTime /\ ScalarHistory(filter)

\* the caller drives this filter alone
Alone == twin = Absent

\* detect(value) on a scalar observation
Detect(value) ==
  /\ mode = "detect"
  /\ Alone
  /\ CanCall
  /\ filter' = FilterDetect(filter, value)
  /\ calls' = calls + 1
  /\ UNCHANGED <<mode, clears, twin, wrapper, driver, model>>

\* localize(value) on a scalar observation
Localize(value) ==
  /\ mode = "localize"
  /\ Alone
  /\ CanCall
  /\ filter' = FilterLocalize(filter, value)
  /\ calls' = calls + 1
  /\ UNCHANGED <<mode, clears, twin, wrapper, driver, model>>

\* clear()
ClearFilter ==
  /\ Alone
  /\ filter.fault = "none"
  /\ clears < MaxClears
  /\ filter' = Clear(filter)
  /\ clears' = clears + 1
  /\ UNCHANGED <<mode, calls, twin, wrapper, driver, model>>

Next ==
  \/ \E value \in Obs : Detect(value)
  \/ \E value \in Obs : Localize(value)
  \/ ClearFilter

Spec == Init /\ [][Next]_vars

-----------------------------------------------------------------------------
(* One filter whose caller also passes arrays.  What an array does once it   *)
(* reaches np.array(training_data) or predict depends on its shape and on the *)
(* numpy at hand; the caller passes one while the filter is in Training and   *)
(* the array does not complete the learning sample, where the code path is    *)
(* the scalar one.                                                            *)

CanCallVector ==
  /\ CanCall
  /\ filter.is_training
  /\ Len(filter.training_data) + 1 < filter.learning_sample_size

\* detect(value) on an array observation
DetectVector ==
  /\ mode = "detect"
  /\ Alone
  /\ CanCallVector
  /\ filter' = FilterDetect(filter, VecObs)
  /\ calls' = calls + 1
  /\ UNCHANGED <<mode, clears, twin, wrapper, driver, model>>

\* localize(value) on an array observation
LocalizeVector ==
  /\ mode = "localize"
  /\ Alone
  /\ CanCallVector
  /\ filter' = FilterLocalize(filter, VecObs)
  /\ calls' = calls + 1
  /\ UNCHANGED <<mode, clears, twin, wrapper, driver, model>>

NextVector ==
  \/ \E value \in Obs : Detect(value)
  \/ \E value \in Obs : Localize(value)
  \/ ClearFilter
  \/ DetectVector
  \/ LocalizeVector

SpecVector == Init /\ [][NextVector]_vars

-----------------------------------------------------------------------------
(* Two filters constructed with the same parameters and fed the same         *)
(* observations: `filter`, fresh or used and then clear()ed, and `twin`,      *)
(* constructed when the comparison starts.                                    *)

\* nothing was fed to the filter since its construction or its last clear()
Unfed(f) == f.fault = "none" /\ f.current_time = 0 /\ f.result = None

\* BayesianOnlineCpd(...) a second time, with the parameters of `filter`
ConstructTwin ==
  /\ Alone
  /\ Unfed(filter)
  /\ twin' = NewFilter(filter.learning_sample_size)
  /\ UNCHANGED <<filter, mode, calls, clears, wrapper, driver, model>>

\* both can take the next observation
CanCallBoth ==
  /\ ~Alone
  /\ filter.fault = "none"
  /\ twin.fault = "none"
  /\ calls < MaxTime

\* detect(value) on both
DetectBoth(value) ==
  /\ mode = "detect"
  /\ CanCallBoth
  /\ filter' = FilterDetect(filter, value)
  /\ twin' = FilterDetect(twin, value)
  /\ calls' = calls + 1
  /\ UNCHANGED <<mode, clears, wrapper, driver, model>>

\* localize(value) on both
LocalizeBoth(value) ==
  /\ mode = "localize"
  /\ CanCallBoth
  /\ filter' = FilterLocalize(filter, value)
  /\ twin' = FilterLocalize(twin, value)
  /\ calls' = calls + 1
  /\ UNCHANGED <<mode, clears, wrapper, driver, model>>

NextTwin ==
  \/ \E value \in Obs : Detect(value)
  \/ \E value \in Obs : Localize(value)
  \/ ClearFilter
  \/ ConstructTwin
  \/ \E value \in Obs : DetectBoth(value)
  \/ \E value \in Obs : LocalizeBoth(value)

SpecTwin == Init /\ [][NextTwin]_vars

-----------------------------------------------------------------------------
(* A wrapper constructed around a fresh filter and driven by its caller *)

TimingRange == 0..MaxTiming

\* BayesianLinearHeuristic(filter, time_before_duplicate_start, duplicate_preparation_time)
Construct(time_before_duplicate_start, duplicate_preparation_time) ==
  /\ wrapper = Absent
  /\ wrapper' = ConstructHeuristic(filter, time_before_duplicate_start,
                                   duplicate_preparation_time)
  /\ UNCHANGED <<filter, mode, calls, clears, twin, driver, model>>

\* the caller holds a wrapper whose last call returned, and the bound allows another
CanCallWrapper ==
  /\ wrapper.state = "constructed"
  /\ wrapper.fault = "none"
  /\ wrapper.time < MaxTime

\* detect(observation) on the wrapper
WrapperDetect(value) ==
  /\ mode = "detect"
  /\ CanCallWrapper
  /\ wrapper' = HeuristicDetect(wrapper, value)
  /\ UNCHANGED <<filter, mode, calls, clears, twin, driver, model>>

\* localize(observation) on the wrapper
WrapperLocalize(value) ==
  /\ mode = "localize"
  /\ CanCallWrapper
  /\ wrapper' = HeuristicLocalize(wrapper, value)
  /\ UNCHANGED <<filter, mode, calls, clears, twin, driver, model>>

NextHeuristic ==
  \/ \E tbds, dpt \in TimingRange : Construct(tbds, dpt)
  \/ \E value \in Obs : WrapperDetect(value)
  \/ \E value \in Obs : WrapperLocalize(value)

SpecHeuristic == Init /\ [][NextHeuristic]_vars

-----------------------------------------------------------------------------
(* A driver over a fresh filter and a provider, consumed element by element *)

\* the providers: every list of at most MaxProvider scalar observations
Providers == UNION {[1..n -> Obs] : n \in 0..MaxProvider}

InitCore ==
  /\ filter \in {NewFilter(n) : n \in 1..MaxLearn}
  /\ mode \in Modes
  /\ calls = 0
  /\ clears = 0
  /\ twin = Absent
  /\ wrapper = Absent
  /\ driver \in {NewCore(data_provider) : data_provider \in Providers}
  /\ model = Absent

\* the consumer can ask for the next element, and the provider has an observation
CanPull ==
  /\ driver.state = "iterating"
  /\ filter.fault = "none"
  /\ driver.pulled < Len(driver.data_provider)

\* next() on the iterator of detect()
CoreDetect ==
  /\ mode = "detect"
  /\ CanPull
  /\ filter' = FilterDetect(filter, driver.data_provider[driver.pulled + 1])
  /\ driver' = CoreYield(driver, filter')
  /\ UNCHANGED <<mode, calls, clears, twin, wrapper, model>>

\* next() on the iterator of localize()
CoreLocalize ==
  /\ mode = "localize"
  /\ CanPull
  /\ filter' = FilterLocalize(filter, driver.data_provider[driver.pulled + 1])
  /\ driver' = CoreYield(driver, filter')
  /\ UNCHANGED <<mode, calls, clears, twin, wrapper, model>>

\* next() when the provider is exhausted: StopIteration
CoreStop ==
  /\ driver.state = "iterating"
  /\ filter.fault = "none"
  /\ driver.pulled = Len(driver.data_provider)
  /\ driver' = [driver EXCEPT !.state = "exhausted"]
  /\ UNCHANGED <<filter, mode, calls, clears, twin, wrapper, model>>

NextCore == CoreDetect \/ CoreLocalize \/ CoreStop

SpecCore == InitCore /\ [][NextCore]_vars

-----------------------------------------------------------------------------
(* A long stream through the wrapper: enough calls for one primary to report
   two change points and for the stage after them to run out. *)

\* observations of the long stream
StreamObs == Obs \cup {<<2>>}

\* the caller holds a wrapper whose last call returned, and the stream goes on
CanCallStream ==
  /\ wrapper.state = "constructed"
  /\ wrapper.fault = "none"
  /\ wrapper.time < MaxStream

\* detect(observation) on the wrapper, next observation of the long stream
StreamDetect(value) ==
  /\ mode = "detect"
  /\ CanCallStream
  /\ wrapper' = HeuristicDetect(wrapper, value)
  /\ UNCHANGED <<filter, mode, calls, clears, twin, driver, model>>

\* localize(observation) on the wrapper, next observation of the long stream
StreamLocalize(value) ==
  /\ mode = "localize"
  /\ CanCallStream
  /\ wrapper' = HeuristicLocalize(wrapper, value)
  /\ UNCHANGED <<filter, mode, calls, clears, twin, driver, model>>

NextStream ==
  \/ \E tbds, dpt \in TimingRange : Construct(tbds, dpt)
  \/ \E value \in StreamObs : StreamDetect(value)
  \/ \E value \in StreamObs : StreamLocalize(value)

SpecStream == Init /\ [][NextStream]_vars

-----------------------------------------------------------------------------
(* A short stream through the wrapper: enough calls for a primary to report *)
(* a change point and for the stage that follows to end in a promotion.     *)

\* observations of the short stream
ShortObs == {Scalar(0), Scalar(1), Scalar(2)}

InitShort ==
  /\ filter \in {NewFilter(n) : n \in 1..MaxShortLearn}
  /\ mode \in Modes
  /\ calls = 0
  /\ clears = 0
  /\ twin = Absent
  /\ wrapper = Absent
  /\ driver = Absent
  /\ model = Absent

\* the caller holds a wrapper whose last call returned, and the stream goes on
CanCallShort ==
  /\ wrapper.state = "constructed"
  /\ wrapper.fault = "none"
  /\ wrapper.time < MaxShort

\* detect(observation) on the wrapper, next observation of the short stream
ShortDetect(value) ==
  /\ mode = "detect"
  /\ CanCallShort
  /\ wrapper' = HeuristicDetect(wrapper, value)
  /\ UNCHANGED <<filter, mode, calls, clears, twin, driver, model>>

\* localize(observation) on the wrapper, next observation of the short stream
ShortLocalize(value) ==
  /\ mode = "localize"
  /\ CanCallShort
  /\ wrapper' = HeuristicLocalize(wrapper, value)
  /\ UNCHANGED <<filter, mode, calls, clears, twin, driver, model>>

NextShort ==
  \/ \E tbds, dpt \in TimingRange : Construct(tbds, dpt)
  \/ \E value \in ShortObs : ShortDetect(value)
  \/ \E value \in ShortObs : ShortLocalize(value)

SpecShort == InitShort /\ [][NextShort]_vars

-----------------------------------------------------------------------------
(* A likelihood object used on its own, in any order of its four methods *)

InitLikelihood ==
  /\ filter = NewFilter(1)
  /\ mode = "detect"
  /\ calls = 0
  /\ clears = 0
  /\ twin = Absent
  /\ wrapper = Absent
  /\ driver = Absent
  /\ model \in {NewLikelihood(class) : class \in Classes}

\* the caller holds the object and the bound allows another call; an
\* AssertionError of the last call was caught
CanCallLikelihood == model # Absent /\ model.count < MaxModelCalls

\* learn compares the two probabilities and the model's arithmetic does not
\* decide which is larger
ComparisonOpen(lik, learning_sample) ==
  /\ lik.class = "HeuristicGaussianVsExponential"
  /\ HeuristicChoice(learning_sample, TRUE) # HeuristicChoice(learning_sample, FALSE)

\* learn(learning_sample); gaussian_wins is the outcome of the comparison
\* where the exact arithmetic of the model does not decide it
ModelLearn(learning_sample, gaussian_wins) ==
  /\ CanCallLikelihood
  /\ gaussian_wins => ComparisonOpen(model, learning_sample)
  /\ model' = LikelihoodCall(model, "learn", learning_sample, gaussian_wins)
  /\ UNCHANGED <<filter, mode, calls, clears, twin, wrapper, driver>>

\* update(observation)
ModelUpdate(observation) ==
  /\ CanCallLikelihood
  /\ model' = LikelihoodCall(model, "update", observation, FALSE)
  /\ UNCHANGED <<filter, mode, calls, clears, twin, wrapper, driver>>

\* predict(observation)
ModelPredict(observation) ==
  /\ CanCallLikelihood
  /\ model' = LikelihoodCall(model, "predict", observation, FALSE)
  /\ UNCHANGED <<filter, mode, calls, clears, twin, wrapper, driver>>

\* clear()
ModelClear ==
  /\ CanCallLikelihood
  /\ model' = LikelihoodCall(model, "clear", None, FALSE)
  /\ UNCHANGED <<filter, mode, calls, clears, twin, wrapper, driver>>

NextLikelihood ==
  \/ \E learning_sample \in Samples, gaussian_wins \in BOOLEAN :
        ModelLearn(learning_sample, gaussian_wins)
  \/ \E observation \in ModelObs : ModelUpdate(observation)
  \/ \E observation \in ModelObs : ModelPredict(observation)
  \/ ModelClear

SpecLikelihood == InitLikelihood /\ [][NextLikelihood]_vars

-----------------------------------------------------------------------------
(* One filter given a short stream through localize, its caller collecting  *)
(* what the calls return; `driver` is the caller's list                     *)

InitSegments ==
  /\ filter \in {NewFilter(n) : n \in 1..MaxShortLearn}
  /\ mode = "localize"
  /\ calls = 0
  /\ clears = 0
  /\ twin = Absent
  /\ wrapper = Absent
  /\ driver = [state |-> "collecting", yielded |-> <<>>]
  /\ model = Absent

\* results.append(algorithm.localize(value)), when the call returns
Collected(results, algorithm) ==
  IF algorithm.fault # "none" THEN results
  ELSE [results EXCEPT !.yielded = Append(@, algorithm.result[1])]

\* localize(value) on the filter, next observation of the short stream
SegmentLocalize(value) ==
  /\ filter.fault = "none"
  /\ filter.current_time < MaxSegment
  /\ filter' = FilterLocalize(filter, value)
  /\ driver' = Collected(driver, filter')
  /\ calls' = calls + 1
  /\ UNCHANGED <<mode, clears, twin, wrapper, model>>

NextSegments == \E value \in ShortObs : SegmentLocalize(value)

SpecSegments == InitSegments /\ [][NextSegments]_vars

-----------------------------------------------------------------------------
(* A HeuristicGaussianVsExponential object called on its own, with negative *)
(* observations among those it is given                                     *)

InitSelection ==
  /\ filter = NewFilter(1)
  /\ mode = "detect"
  /\ calls = 0
  /\ clears = 0
  /\ twin = Absent
  /\ wrapper = Absent
  /\ driver = Absent
  /\ model = NewLikelihood("HeuristicGaussianVsExponential")

\* the caller holds the object and the bound allows another call
CanCallSelection == model # Absent /\ model.count < MaxSelectionCalls

\* learn(learning_sample); gaussian_wins as in ModelLearn
SelectionLearn(learning_sample, gaussian_wins) ==
  /\ CanCallSelection
  /\ gaussian_wins => ComparisonOpen(model, learning_sample)
  /\ model' = LikelihoodCall(model, "learn", learning_sample, gaussian_wins)
  /\ UNCHANGED <<filter, mode, calls, clears, twin, wrapper, driver>>

\* update(observation)
SelectionUpdate(observation) ==
  /\ CanCallSelection
  /\ model' = LikelihoodCall(model, "update", observation, FALSE)
  /\ UNCHANGED <<filter, mode, calls, clears, twin, wrapper, driver>>

\* predict(observation)
SelectionPredict(observation) ==
  /\ CanCallSelection
  /\ model' = LikelihoodCall(model, "predict", observation, FALSE)
  /\ UNCHANGED <<filter, mode, calls, clears, twin, wrapper, driver>>

\* clear()
SelectionClear ==
  /\ CanCallSelection
  /\ model' = LikelihoodCall(model, "clear", None, FALSE)
  /\ UNCHANGED <<filter, mode, calls, clears, twin, wrapper, driver>>

NextSelection ==
  \/ \E learning_sample \in SelectionSamples, gaussian_wins \in BOOLEAN :
        SelectionLearn(learning_sample, gaussian_wins)
  \/ \E observation \in SelectionObs : SelectionUpdate(observation)
  \/ \E observation \in SelectionObs : SelectionPredict(observation)
  \/ SelectionClear

SpecSelection == InitSelection /\ [][NextSelection]_vars

-----------------------------------------------------------------------------
(* A detector or a localizer called on its own, the way the unit tests of   *)
(* the package call them; `model` is the object                             *)

\* the entries of the arrays passed: below, at and above the threshold, and NaN
ProbValues == {Zero, Rat(1, 2), threshold, One, NaN}

\* the arrays passed, the empty one included
GrowthProbsArrays == UNION {[1..n -> ProbValues] : n \in 0..MaxProbs}

InitParts ==
  /\ filter = NewFilter(1)
  /\ mode = "detect"
  /\ calls = 0
  /\ clears = 0
  /\ twin = Absent
  /\ wrapper = Absent
  /\ driver = Absent
  /\ model \in {NewPart(class) : class \in {"ThresholdDetector", "ArgmaxLocalizer"}}

\* the caller holds the object and the bound allows another call; an
\* AssertionError of the last call was caught
CanCallPart(class) ==
  model # Absent /\ model.class = class /\ model.count < MaxPartCalls

\* detector.detect(growth_probs)
PartDetect(growth_probs) ==
  /\ CanCallPart("ThresholdDetector")
  /\ model' = DetectorDetect(model, growth_probs)
  /\ UNCHANGED <<filter, mode, calls, clears, twin, wrapper, driver>>

\* detector.clear()
PartClear ==
  /\ CanCallPart("ThresholdDetector")
  /\ model' = DetectorClear(model)
  /\ UNCHANGED <<filter, mode, calls, clears, twin, wrapper, driver>>

\* localizer.localize(growth_probs)
PartLocalize(growth_probs) ==
  /\ CanCallPart("ArgmaxLocalizer")
  /\ model' = LocalizerLocalize(model, growth_probs)
  /\ UNCHANGED <<filter, mode, calls, clears, twin, wrapper, driver>>

NextParts ==
  \/ \E growth_probs \in GrowthProbsArrays : PartDetect(growth_probs)
  \/ PartClear
  \/ \E growth_probs \in GrowthProbsArrays : PartLocalize(growth_probs)

SpecParts == InitParts /\ [][NextParts]_vars

-----------------------------------------------------------------------------
(* Properties of one filter driven by its caller *)

\* the filter is in Filtering
Filtering(f) == ~f.is_training

\* every entry is a number >= 0 and the entries sum to 1
IsDistribution(probs) ==
  /\ \A i \in 1..Len(probs) : ~IsNaN(probs[i]) /\ probs[i].n >= 0
  /\ RSum(probs) = One

\* the last call was a localize that handled a change point: it returned one,
\* or it stored one and is still inside its retraining loop
LocalizedChange ==
  /\ mode = "localize"
  /\ \/ filter.fault = "nontermination"
     \/ filter.fault = "none" /\ filter.result # None /\ filter.result[1] # None

\* the last call returned and handled a change point
HandledChange ==
  /\ filter.fault = "none"
  /\ filter.result # None
  /\ IF mode = "detect" THEN filter.result[1] ELSE filter.result[1] # None

\* C1: after every Bayesian-recursion step the entries of RunLengthDistribution
\* are >= 0 and sum to 1, also when every predictive density of the step is 0
C1_NormalizationInvariant ==
  filter.run_length_probs # <<>> => IsDistribution(filter.run_length_probs)

C3_ResetInvariant == HandledChange => filter.run_length_probs = <<One>>

\* C4: every detect or localize call returns or raises; none is still inside
\* its retraining loop after MaxLoopIter iterations of it
C4_EveryCallTerminates == filter.fault # "nontermination"

\* C5: a localized change that retains m >= learning_sample_size observations
\* returns with the filter in Filtering, the likelihood learned from the first
\* learning_sample_size retained observations and 1 + (m - learning_sample_size)
\* entries in RunLengthDistribution
C5_RetrainAndReplay ==
  (LocalizedChange /\ Len(filter.data_history) >= filter.learning_sample_size) =>
    /\ filter.fault = "none"
    /\ Filtering(filter)
    /\ filter.likelihood.shape_prior = Some(filter.learning_sample_size)
    /\ filter.likelihood.scale_prior =
          Some(SumValues(SliceFirst(filter.data_history, filter.learning_sample_size)))
    /\ Len(filter.run_length_probs) =
          1 + Len(filter.data_history) - filter.learning_sample_size

\* C6: after construction and after every detect or localize call that
\* returned, the likelihood holds as many hyperparameter entries as
\* RunLengthDistribution has entries
C6_HyperparametersParallel ==
  (filter.fault = "none" /\ (calls = 0 \/ filter.result # None)) =>
    /\ Len(filter.likelihood.shapes) = Len(filter.run_length_probs)
    /\ Len(filter.likelihood.scales) = Len(filter.run_length_probs)

\* C7: a detect or localize call with an array observation raises TypeError
\* and leaves the filter as it was
C7_VectorRejected ==
  [][(DetectVector \/ LocalizeVector) =>
       /\ filter'.fault = "TypeError"
       /\ [filter' EXCEPT !.fault = "none"] = filter]_vars

\* C8: a filter, fresh or used and then clear()ed, and a freshly constructed
\* one with the same parameters end every call on the same observation the
\* same way and return the same result
C8_Determinism ==
  ~Alone => filter.fault = twin.fault /\ filter.result = twin.result

\* C8 witness: the filter was used on earlier observations and clear()ed, the
\* twin was constructed after that, and both returned a change point from the
\* same call
C8_Witness ==
  /\ ~Alone
  /\ clears = 1
  /\ calls > filter.current_time
  /\ filter.fault = "none"
  /\ filter.result # None
  /\ IF mode = "detect" THEN filter.result[1] ELSE filter.result[1] # None

-----------------------------------------------------------------------------
(* Properties of the driver *)

\* C9: the iterator yields one element per observation pulled, the elements
\* are what direct calls of the algorithm return on the same observations in
\* the same order, and an exhausted iterator has yielded one element per
\* observation of the provider
C9_OneResultPerObservation ==
  /\ Len(driver.yielded) = driver.pulled
  /\ driver.yielded =
       AlgorithmResults(NewFilter(filter.learning_sample_size), mode,
                        SliceFirst(driver.data_provider, driver.pulled))
  /\ driver.state = "exhausted" => Len(driver.yielded) = Len(driver.data_provider)

-----------------------------------------------------------------------------
(* Properties of the wrapper *)

\* C10: constructing the wrapper gives an object exactly when
\* time_before_duplicate_start > duplicate_preparation_time > 0, and raises
\* ValueError otherwise; a wrapper that takes calls has such timing
C10_ConstructionGuard ==
  wrapper # Absent =>
    /\ wrapper.state = "constructed" <=>
          /\ wrapper.time_before_duplicate_start > wrapper.duplicate_preparation_time
          /\ wrapper.duplicate_preparation_time > 0
    /\ wrapper.state # "constructed" =>
          wrapper.state = "failed" /\ wrapper.fault = "ValueError"

\* C10 witness: a construction with time_before_duplicate_start equal to a
\* positive duplicate_preparation_time raised ValueError
C10_Witness ==
  /\ wrapper.state = "failed"
  /\ wrapper.fault = "ValueError"
  /\ wrapper.time_before_duplicate_start = wrapper.duplicate_preparation_time
  /\ wrapper.duplicate_preparation_time > 0

\* the step is a wrapper call on which _handle_duplicate_preparation made the
\* duplicating algorithm the main one
Promotion ==
  /\ wrapper.state = "constructed"
  /\ wrapper.fault = "none"
  /\ WorkTime(wrapper) = StageEnd(wrapper)
  /\ wrapper.duplicating_algorithm # None
  /\ wrapper'.fault = "none"
  /\ wrapper'.time = wrapper.time + 1
  /\ wrapper'.duplicating_algorithm = None
  /\ wrapper'.main_algorithm = wrapper.duplicating_algorithm[1]

\* C11: on the step that promotes the shadow, the promoted filter has processed
\* exactly duplicate_preparation_time observations, so the new primary missed
\* none of the observations consumed since the shadow was created
C11_ShadowPreparedAtPromotion ==
  [][Promotion =>
       wrapper'.main_algorithm.current_time = wrapper.duplicate_preparation_time]_vars

\* the last call on the wrapper was localize and returned a change point
WrapperLocated ==
  /\ wrapper.state = "constructed"
  /\ mode = "localize"
  /\ wrapper.fault = "none"
  /\ wrapper.result # None
  /\ wrapper.result[1] # None

\* C12: a change point returned by the wrapper's localize is the number of
\* observations the wrapper has consumed, the current one counted, minus the
\* run length the primary localized, and never exceeds that number, also after
\* earlier change points and promotions
C12_ChangePointAbsolute ==
  WrapperLocated =>
    /\ wrapper.result[1][1] =
          wrapper.time - (wrapper.main_algorithm.current_time
                            - wrapper.main_algorithm.result[1][1])
    /\ wrapper.result[1][1] <= wrapper.time

\* C13: in every state of a wrapper, driven by detect or by localize, the
\* primary's RunLengthDistribution has at most
\* time_before_duplicate_start + duplicate_preparation_time + 1 entries
C13_BoundedRunLengthDistribution ==
  wrapper.state = "constructed" =>
    Len(wrapper.main_algorithm.run_length_probs) <= StageEnd(wrapper) + 1

-----------------------------------------------------------------------------
(* Properties of the filter's buffers and of its steps *)

\* the run length of the change point the last localize call localized:
\* current_time minus the change point it returned or stored
LocalizedRunLength ==
  filter.current_time
    - (IF filter.change_point # None THEN filter.change_point[1]
       ELSE filter.result[1][1])

C15_AfterDetection ==
  (mode = "detect" /\ HandledChange) =>
    /\ filter.is_training
    /\ filter.likelihood = ExpClear
    /\ Len(filter.data_history) = 1
    /\ filter.training_data = filter.data_history

\* what a call that reports no change returns: False from detect, None from localize
NoChangeResult == IF mode = "detect" THEN Some(FALSE) ELSE Some(None)

\* the step is one of the first learning_sample_size calls on a filter since
\* its construction or its last clear()
TrainingCall ==
  /\ filter'.current_time = filter.current_time + 1
  /\ filter'.current_time <= filter.learning_sample_size

\* C16: each of the first learning_sample_size - 1 calls on a fresh or cleared
\* filter returns no change, leaves the likelihood alone and stays in Training;
\* call number learning_sample_size returns no change too and ends in Filtering
\* with RunLengthDistribution [1.0] and the likelihood cleared and learned from
\* exactly the learning_sample_size observations of these calls
C16_TrainingPhase ==
  [][TrainingCall =>
       /\ filter'.fault = "none"
       /\ filter'.result = NoChangeResult
       /\ Len(filter'.data_history) = filter'.current_time
       /\ IF filter'.current_time < filter.learning_sample_size
          THEN /\ filter'.is_training
               /\ filter'.likelihood = filter.likelihood
               /\ filter'.run_length_probs = <<>>
          ELSE /\ Filtering(filter')
               /\ filter'.likelihood = ExpLearn(ExpClear, filter'.data_history)
               /\ filter'.run_length_probs = <<One>>]_vars

\* C16 witness: a filter that was used, cleared and fed learning_sample_size >= 2
\* observations again has just entered Filtering
C16_Witness ==
  /\ clears > 0
  /\ calls > filter.current_time
  /\ filter.learning_sample_size >= 2
  /\ filter.current_time = filter.learning_sample_size
  /\ Filtering(filter)
  /\ filter.run_length_probs = <<One>>

\* the step is a call in Filtering after which the distribution it computed is
\* still stored: it returned no change, or detect returned true and
\* __handle_detection did not complete a new learning sample
FilteringStep ==
  /\ Filtering(filter)
  /\ filter'.current_time = filter.current_time + 1
  /\ filter'.fault = "none"
  /\ \/ filter'.result = NoChangeResult
     \/ mode = "detect" /\ filter.learning_sample_size # 2

\* entry i (from 1) of the distribution before it is divided by its total:
\* the reset mass first, then the growth mass of each old run length
Unnormalised(p, h, pred, i) ==
  IF i = 1
  THEN RSum([j \in 1..Len(p) |-> RMul(RMul(p[j], h[j]), pred[j])])
  ELSE RMul(RMul(p[i - 1], RSub(One, h[i - 1])), pred[i - 1])

\* the distribution that follows p when the hazards are h and the predictive
\* densities are pred
Recursion(p, h, pred) ==
  [i \in 1..(Len(p) + 1) |->
     RDiv(Unnormalised(p, h, pred, i),
          RSum([k \in 1..(Len(p) + 1) |-> Unnormalised(p, h, pred, k)]))]

\* C17: a Filtering step replaces the distribution p of length n by one of
\* length n + 1: entry 0 is the sum of p[i] * h[i] * pred[i], entry i + 1 is
\* p[i] * (1 - h[i]) * pred[i], all divided by their common total; pred are the
\* predictive densities of the observation taken before the likelihood is
\* updated with it, h the hazards of the run lengths 0..n-1
C17_BayesianRecursion ==
  [][FilteringStep =>
       /\ filter'.run_length_probs =
             Recursion(filter.run_length_probs,
                       Hazard(Len(filter.run_length_probs)),
                       ExpPredict(filter.likelihood,
                                  Val(filter'.data_history[Len(filter'.data_history)])))
       /\ filter'.result = NoChangeResult =>
             filter'.likelihood =
               ExpUpdate(filter.likelihood,
                         Val(filter'.data_history[Len(filter'.data_history)]))]_vars

\* C17 witness: the second Filtering step in a row of a detect run computed
\* three probabilities, none of them NaN, from two
C17_Witness ==
  /\ mode = "detect"
  /\ filter.fault = "none"
  /\ filter.learning_sample_size # 2
  /\ filter.result = Some(TRUE)
  /\ Len(filter.run_length_probs) = 3
  /\ ~IsNaN(filter.run_length_probs[1])

\* C18: TrainingBuffer never holds more than learning_sample_size observations,
\* and it is empty once learn has consumed it, that is in Filtering
C18_TrainingBufferBounded ==
  /\ Len(filter.training_data) <= filter.learning_sample_size
  /\ Filtering(filter) => filter.training_data = <<>>

-----------------------------------------------------------------------------
(* Properties of the likelihood objects *)

\* C19: for each of the three likelihoods, predict or update on a model that
\* has not learned raises an assertion error: it returns no value and leaves
\* the model's state as it was
C19_UnlearnedUseRejected ==
  [][(/\ model # Absent
      /\ ~IsLearned(model)
      /\ model'.count = model.count + 1
      /\ model'.called \in {"predict", "update"})
     => /\ model'.fault = "AssertionError"
        /\ model'.result = None
        /\ model'.state = model.state]_vars

\* C20: for each of the three likelihoods, learn on a model that has learned
\* and was not cleared since is rejected and the model keeps its state
C20_SecondLearnRejected ==
  [][(/\ model # Absent
      /\ IsLearned(model)
      /\ model'.count = model.count + 1
      /\ model'.called = "learn")
     => /\ model'.fault # "none"
        /\ model'.state = model.state]_vars

\* the conjugate model that holds the parameters: the object itself, or the
\* one the heuristic retained
Underlying(lik) ==
  IF lik.class = "HeuristicGaussianVsExponential" THEN lik.state.likelihood[1]
  ELSE [class |-> lik.class, state |-> lik.state]

\* the sum of the i most recent of the observations
SumRecent(observations, i) ==
  IF i = 0 THEN 0
  ELSE SumValues(SubSeq(observations, Len(observations) - i + 1, Len(observations)))

\* after learn on n values summing to S and k updates: shapes = [n, .., n + k],
\* scales[i] = S + the sum of the i most recent observations
ExpParametersAfter(state, sample, updates) ==
  /\ state.shapes = [i \in 1..(Len(updates) + 1) |-> Len(sample) + i - 1]
  /\ state.scales =
       [i \in 1..(Len(updates) + 1) |-> SumValues(sample) + SumRecent(updates, i - 1)]

\* after learn and k updates each of the four sequences has k + 1 entries, the
\* first of them the prior that learn computed
GaussParametersAfter(state, sample, updates) ==
  /\ Len(state.mu_params) = Len(updates) + 1
  /\ Len(state.k_params) = Len(updates) + 1
  /\ Len(state.alpha_params) = Len(updates) + 1
  /\ Len(state.beta_params) = Len(updates) + 1
  /\ state.mu_params[1] = Rat(SumValues(sample), Len(sample))
  /\ state.k_params[1] = Rat(Len(sample), 1)
  /\ state.alpha_params[1] = Rat(Len(sample), 2)
  /\ state.beta_params[1] = state.beta_0[1]

\* C21: after learn and k >= 0 updates every hyperparameter sequence has k + 1
\* entries, entry 0 the prior computed by learn (ExponentialConjugate:
\* shapes = [n, .., n + k], scales[i] = S + the sum of the i most recent
\* observations); predict returns k + 1 densities and changes no state
C21_ParametersPerRunLength ==
  [][(model # Absent /\ model'.count = model.count + 1) =>
       /\ model'.learned_from # None =>
            IF Underlying(model').class = "ExponentialConjugate"
            THEN ExpParametersAfter(Underlying(model').state,
                                    model'.learned_from[1], model'.updated_with)
            ELSE GaussParametersAfter(Underlying(model').state,
                                      model'.learned_from[1], model'.updated_with)
       /\ (model'.called = "predict" /\ model'.learned_from # None) =>
            /\ model'.fault = "none"
            /\ Len(model'.result[1]) = Len(model'.updated_with) + 1
       /\ model'.called = "predict" => model'.state = model.state]_vars

\* C21 witness: an ExponentialConjugate that learned was updated with two
\* different observations
C21_Witness ==
  /\ model # Absent
  /\ model.class = "ExponentialConjugate"
  /\ model.learned_from # None
  /\ Len(model.updated_with) = 2
  /\ model.updated_with[1] # model.updated_with[2]

\* C22: clear() leaves the state of a model just constructed, and a learn that
\* follows a clear() leaves the state learn leaves on a fresh instance given
\* the same sample (for the heuristic: with the same model retained),
\* whatever was learned and updated before the clear()
C22_ClearLeavesNoTrace ==
  [][(model # Absent /\ model'.count = model.count + 1) =>
       /\ model'.called = "clear" =>
            /\ model'.fault = "none"
            /\ model'.state = NewLikelihood(model.class).state
       /\ (model'.called = "learn" /\ model.called = "clear") =>
            /\ model'.fault = "none"
            /\ model'.state =
                 LikelihoodCall(NewLikelihood(model.class), "learn", model'.learned_from[1],
                                Underlying(model').class = "GaussianConjugate").state]_vars

\* C22 witness: a model that learned a sample and was updated was cleared and
\* has just learned the same sample again
C22_Witness ==
  /\ model # Absent
  /\ model.called = "learn"
  /\ model.fault = "none"
  /\ model.forgotten # None
  /\ Len(model.forgotten[1].updates) >= 1
  /\ model.learned_from = Some(model.forgotten[1].sample)
  /\ model.count = 4

\* C23: no predict call of any likelihood returns NaN for a run length: a
\* density that evaluates to NaN is returned as 0
C23_NanDensityIsZero ==
  (model # Absent /\ model.called = "predict" /\ model.fault = "none") =>
     \A i \in 1..Len(model.result[1]) : model.result[1][i] # NaN

\* C24: detect returns true exactly when the array is non-empty and its last
\* entry is strictly below the threshold, before and after clear(); the
\* detector's threshold is the one it was constructed with after every call
C24_DetectBelowThreshold ==
  (model # Absent /\ model.class = "ThresholdDetector") =>
     /\ model.state = Some(threshold)
     /\ model.called = "detect" =>
          /\ model.fault = "none"
          /\ model.result[1] <=>
                /\ model.growth_probs[1] # <<>>
                /\ LET last == model.growth_probs[1][Len(model.growth_probs[1])]
                   IN  ~IsNaN(last) /\ last.n * threshold.d < threshold.n * last.d

\* C24 witness: after a clear(), detect on an array whose last entry equals the
\* threshold returned false
C24_Witness ==
  /\ model # Absent
  /\ model.class = "ThresholdDetector"
  /\ model.called = "detect"
  /\ model.cleared
  /\ Len(model.growth_probs[1]) = 2
  /\ model.growth_probs[1][2] = threshold
  /\ model.result = Some(FALSE)

\* C25: localize raises AssertionError on an empty array, returns 0 for one
\* entry and otherwise an index in 0 .. length - 2 whose entry no other entry
\* but the last exceeds (where none of them is NaN)
C25_ArgmaxOfAllButLast ==
  (model # Absent /\ model.class = "ArgmaxLocalizer" /\ model.called = "localize") =>
     LET a == model.growth_probs[1]
     IN  /\ Len(a) = 0 => (model.fault = "AssertionError" /\ model.result = None)
         /\ Len(a) > 0 => model.fault = "none"
         /\ Len(a) = 1 => model.result = Some(0)
         /\ Len(a) >= 2 =>
              /\ model.result[1] \in 0..(Len(a) - 2)
              /\ (\A j \in 1..(Len(a) - 1) : ~IsNaN(a[j])) =>
                    \A j \in 1..(Len(a) - 1) : ~RLess(a[model.result[1] + 1], a[j])

\* C25 witness: localize on three entries, the last the largest and the second
\* larger than the first, returned 1
C25_Witness ==
  /\ model # Absent
  /\ model.class = "ArgmaxLocalizer"
  /\ model.called = "localize"
  /\ model.growth_probs = Some(<<Zero, Rat(1, 2), One>>)
  /\ model.result = Some(1)

\* what the conjugate model `underlying` does on method_name(observation)
UnderlyingCall(underlying, method_name, observation) ==
  IF underlying.class = "GaussianConjugate"
  THEN GaussianCall(underlying.state, method_name, observation)
  ELSE ExponentialCall(underlying.state, method_name, observation)

ChangeReported ==
  /\ wrapper.state = "constructed"
  /\ wrapper.fault = "none"
  /\ wrapper'.time = wrapper.time + 1
  /\ wrapper'.fault = "none"
  /\ IF mode = "detect" THEN wrapper'.result = Some(TRUE)
     ELSE wrapper'.result # Some(None)

\* C27: after every wrapper call a duplicating algorithm exists only while
\* time_before_duplicate_start < steps since the baseline <= stage_end; a call
\* that returns a change leaves none; a call that promotes leaves none and
\* makes the duplicating algorithm, as it was before the call, the main one
C27_ShadowOnlyInsideStage ==
  [][(wrapper.state = "constructed" /\ wrapper' # wrapper) =>
       /\ wrapper'.duplicating_algorithm # None =>
            /\ wrapper'.time_before_duplicate_start < WorkTime(wrapper')
            /\ WorkTime(wrapper') <= StageEnd(wrapper')
       /\ ChangeReported => wrapper'.duplicating_algorithm = None
       /\ ( /\ WorkTime(wrapper) = StageEnd(wrapper)
            /\ wrapper'.time = wrapper.time + 1
            /\ ~ChangeReported ) =>
            /\ wrapper'.duplicating_algorithm = None
            /\ wrapper.duplicating_algorithm # None
            /\ wrapper'.main_algorithm = wrapper.duplicating_algorithm[1]
            /\ WorkTime(wrapper') = wrapper.duplicate_preparation_time + 1]_vars

\* C27 witness: after a change point moved the baseline, a duplicating
\* algorithm that was fed exists at the last step of its stage
C27_Witness ==
  /\ wrapper.state = "constructed"
  /\ wrapper.fault = "none"
  /\ wrapper.last_algorithm_start_time > 0
  /\ wrapper.duplicating_algorithm # None
  /\ wrapper.duplicating_algorithm[1].current_time >= 1
  /\ WorkTime(wrapper) = StageEnd(wrapper)

\* the step is a wrapper call whose main algorithm reported no change, on
\* which the steps since the baseline equal stage_end
PromotionDue ==
  /\ wrapper.state = "constructed"
  /\ wrapper.fault = "none"
  /\ wrapper' # wrapper
  /\ WorkTime(wrapper) = StageEnd(wrapper)
  /\ wrapper'.main_algorithm.fault = "none"
  /\ \/ wrapper'.fault # "none"
     \/ IF mode = "detect" THEN wrapper'.result = Some(FALSE)
        ELSE wrapper'.result = Some(None)

\* C28: on every step that is due to promote, a duplicating algorithm exists
\* and the assertion of the promotion branch holds
C28_ShadowExistsAtPromotion ==
  [][PromotionDue =>
       /\ wrapper.duplicating_algorithm # None
       /\ wrapper'.fault # "AssertionError"]_vars

\* C28 witness: a localize call has just promoted the duplicating algorithm,
\* at a time no promotion falls on unless a change point moved the baseline
C28_Witness ==
  /\ wrapper.state = "constructed"
  /\ mode = "localize"
  /\ wrapper.fault = "none"
  /\ wrapper.result = Some(None)
  /\ wrapper.duplicating_algorithm = None
  /\ WorkTime(wrapper) = wrapper.duplicate_preparation_time + 1
  /\ wrapper.main_algorithm.current_time = wrapper.duplicate_preparation_time - 1
  /\ (wrapper.time - 1 - StageEnd(wrapper)) % wrapper.time_before_duplicate_start # 0

\* C29: a filter in Training is in Filtering again after at most
\* learning_sample_size further observations: every observation it takes in
\* Training adds one to the training buffer, and the one that finds
\* learning_sample_size - 1 or more entries there ends Training
C29_TrainingEnds ==
  [][( /\ filter.fault = "none"
       /\ filter.is_training
       /\ filter'.current_time = filter.current_time + 1
       /\ filter'.fault = "none" ) =>
       IF Len(filter.training_data) + 1 >= filter.learning_sample_size
       THEN ~filter'.is_training
       ELSE /\ filter'.is_training
            /\ Len(filter'.training_data) = Len(filter.training_data) + 1]_vars

\* the change points among the values the caller collected, in order
RECURSIVE ChangePointsIn(_)
ChangePointsIn(yielded) ==
  IF yielded = <<>> THEN <<>>
  ELSE (IF Head(yielded) = None THEN <<>> ELSE <<Head(yielded)[1]>>)
       \o ChangePointsIn(Tail(yielded))

\* C30: a change point that localize returns is greater than every change
\* point the filter returned before, and greater than the number of
\* observations the filter had taken when the training of the segment it
\* closes was complete; the training of a segment is complete when the
\* history of the segment holds learning_sample_size observations
C30_ChangePointsIncrease ==
  [][( /\ driver # Absent
       /\ driver.state = "collecting"
       /\ filter'.fault = "none"
       /\ filter'.current_time = filter.current_time + 1 ) =>
     /\ (filter.is_training /\ ~filter'.is_training) =>
           Len(filter'.data_history) = filter.learning_sample_size
     /\ filter'.result[1] # None =>
       /\ ~filter.is_training
       /\ filter'.result[1][1] >
            filter.current_time - Len(filter.data_history) + filter.learning_sample_size
       /\ \A i \in 1..Len(ChangePointsIn(driver.yielded)) :
             ChangePointsIn(driver.yielded)[i] < filter'.result[1][1]]_vars

\* C30 witness: localize has returned two change points
C30_Witness ==
  /\ driver # Absent
  /\ driver.state = "collecting"
  /\ filter.fault = "none"
  /\ filter.result # None
  /\ filter.result[1] # None
  /\ Len(ChangePointsIn(driver.yielded)) = 2

=============================================================================
